---------------------------- MODULE Spec2Model ----------------------------
(* A state-machine model of train_fnri.py: the orchestrator main(), the   *)
(* epoch runner run() with its callers train() and test(), and the        *)
(* posterior-conditioned generator generations().                          *)
(*                                                                         *)
(* Tensor values are exact rationals <<num, den>> in lowest terms with     *)
(* den > 0.  The last axis of a tensor is a function over 0..T-1 so that   *)
(* the index arithmetic of the source (et*n, (et+1)*n) is kept as written. *)
(* The encoder, the decoder, the Gumbel sampler, the loss helpers of utils *)
(* and the checkpoint store are external: what they return is drawn from   *)
(* small sets.                                                             *)
EXTENDS Integers, Sequences, FiniteSets, TLC

----------------------------------------------------------------------------
(* Bounds of the model *)

MaxEpochs == 5

MaxPatience == 2

MaxBatches == 2

Unit == 2

(* args.num_atoms: two atoms give (2*2)-2 = 2 ordered atom-pairs *)
num_atoms == 2

----------------------------------------------------------------------------
(* Exact rational arithmetic *)

RECURSIVE GCD(_, _)
GCD(a, b) == IF b = 0 THEN a ELSE GCD(b, a % b)

Abs(x) == IF x < 0 THEN -x ELSE x

Rat(n, d) ==
    LET g == GCD(Abs(n), d)
    IN  IF n = 0 THEN <<0, 1>> ELSE <<n \div g, d \div g>>

Zero == <<0, 1>>

One == <<1, 1>>

RAdd(x, y) == Rat(x[1] * y[2] + y[1] * x[2], x[2] * y[2])

RMul(x, y) == Rat(x[1] * y[1], x[2] * y[2])

RDivInt(x, k) == Rat(x[1], x[2] * k)

RLeq(x, y) == x[1] * y[2] <= y[1] * x[2]

RAbs(x) == <<Abs(x[1]), x[2]>>

RECURSIVE RSumSeq(_)
RSumSeq(s) == IF s = <<>> THEN Zero ELSE RAdd(Head(s), RSumSeq(Tail(s)))

RECURSIVE SumSeq(_)
SumSeq(s) == IF s = <<>> THEN 0 ELSE Head(s) + SumSeq(Tail(s))

(* p[lo:hi] of Python on a row with indices 0..T-1, as a sequence *)
PySlice(row, lo, hi) ==
    LET T  == Cardinality(DOMAIN row)
        h  == IF hi > T THEN T ELSE hi
        n  == IF h > lo THEN h - lo ELSE 0
    IN  [k \in 1..n |-> row[lo + k - 1]]

----------------------------------------------------------------------------
(* Configurations and data the runs are drawn from *)

(* --edge-types-list as given on the command line, before sorting *)
PartitionInputs ==
    { <<2>>, <<2, 2>>, <<1, 2>>, <<2, 1>>, <<2, 3>>, <<1, 1>>, <<2, 0>>, <<-1, 2>> }

(* --beta: 0, 5e-9, 1e-3, 1/2 and 1 *)
Betas == { <<0, 1>>, <<1, 200000000>>, <<1, 1000>>, <<1, 2>>, <<1, 1>> }

(* A data loader is the sequence of its batch sizes: up to MaxBatches     *)
(* batches of one sample, or batches of two with a shorter last batch.    *)
LoaderShapes ==
    { [k \in 1..b |-> 1] : b \in 1..MaxBatches } \cup { <<2, 1>>, <<2>> }

OneBatch == [train |-> <<1>>, val |-> <<1>>, test |-> <<1>>]

ArgsOf(l, pr, pa, ep, be, ms, lf) ==
    [edge_types_list |-> l, prior |-> pr, patience |-> pa, epochs |-> ep,
     beta |-> be, mse_loss |-> ms, load_folder |-> lf]

(* every partition input, with and without the sparsity prior *)
StartupRuns ==
    { <<ArgsOf(l, pr, 0, 1, One, FALSE, lf), OneBatch>> :
        l \in PartitionInputs, pr \in BOOLEAN, lf \in BOOLEAN }

(* every epoch maximum and patience *)
LoopRuns ==
    { <<ArgsOf(<<2>>, FALSE, pa, ep, One, FALSE, FALSE), OneBatch>> :
        pa \in 0..MaxPatience, ep \in 0..MaxEpochs }

(* every KL scale and loss selector *)
LossRuns ==
    { <<ArgsOf(<<2>>, pr, 0, 1, be, ms, FALSE), OneBatch>> :
        pr \in BOOLEAN, be \in Betas, ms \in BOOLEAN }

(* every shape of the training loader, and longer validation and test   *)
(* loaders                                                                *)
PassRuns ==
    { <<ArgsOf(l, FALSE, 0, 1, One, FALSE, FALSE),
        [train |-> tr, val |-> <<2, 1>>, test |-> <<1>>]>> :
        l \in { <<2>>, <<2, 1>> }, tr \in LoaderShapes }
    \cup
    { <<ArgsOf(l, FALSE, 0, 1, One, FALSE, FALSE),
        [train |-> <<1>>, val |-> <<1>>, test |-> <<2, 1>>]>> :
        l \in { <<2>>, <<2, 1>> } }

Runs == StartupRuns \cup LoopRuns \cup LossRuns \cup PassRuns

(* what the external loss helpers return for one batch *)
BatchOutcomes ==
    { [nll |-> <<1, 1>>, kl |-> <<0, 1>>, mse |-> <<7, 1>>,
       KLb_blocks |-> << <<4, 1>> >>],
      [nll |-> <<2, 1>>, kl |-> <<3, 1>>, mse |-> <<8, 1>>,
       KLb_blocks |-> << <<2, 1>>, <<3, 1>> >>],
      [nll |-> <<1, 1>>, kl |-> <<3, 1>>, mse |-> <<9, 1>>,
       KLb_blocks |-> << <<6, 1>> >>] }

----------------------------------------------------------------------------
(* Helpers of main() *)

RECURSIVE InsertDesc(_, _)
InsertDesc(x, s) ==
    IF s = <<>> THEN <<x>>
    ELSE IF x >= Head(s) THEN <<x>> \o s
    ELSE <<Head(s)>> \o InsertDesc(x, Tail(s))

(* variant: the list sorted in ascending order *)
RECURSIVE InsertAsc(_, _)
InsertAsc(x, s) ==
    IF s = <<>> THEN <<x>>
    ELSE IF x <= Head(s) THEN <<x>> \o s
    ELSE <<Head(s)>> \o InsertAsc(x, Tail(s))

RECURSIVE SortAsc(_)
SortAsc(s) == IF s = <<>> THEN <<>> ELSE InsertAsc(Head(s), SortAsc(Tail(s)))

(* list.sort(reverse=True) *)
RECURSIVE SortDesc(_)
SortDesc(s) == IF s = <<>> THEN <<>> ELSE InsertDesc(Head(s), SortDesc(Tail(s)))

(* all((isinstance(k, int) and k >= 1) for k in args.edge_types_list) *)
AllAtLeastOne(l) == \A k \in 1..Len(l) : l[k] >= 1

(* (args.num_atoms**2)-args.num_atoms, also rel_rec.shape[0] *)
NumPairs == (num_atoms * num_atoms) - num_atoms

(* prior_et: 0.9 on the first category, 0.1/(n0-1) on each other one *)
PriorEt(n0) ==
    [c \in 1..n0 |-> IF c = 1 THEN Rat(9, 10) ELSE Rat(1, 10 * (n0 - 1))]

(* torch.FloatTensor(np.log(prior_i)), unsqueezed twice: [1, 1, size] *)
LogPriorOf(prior_i) == [c \in 1..Len(prior_i) |-> <<"log", prior_i[c]>>]

(* all(prior[i].size == args.edge_types_list[i] ...) *)
PriorFits(prior, l) == \A i \in 1..Len(l) : Len(prior[i]) = l[i]

(* Python's None, where a list or a tensor could stand *)
None == <<>>

(* a local variable that is not bound *)
Unbound == "unbound"

(* what main() holds of a pass before any pass has returned *)
NoReturn == [history |-> None, aggr_posterior |-> None]

----------------------------------------------------------------------------
(* Helpers of run() *)

(* np.isclose(args.beta, 0, rtol=1e-6): abs(beta - 0) <= 1e-8 + 1e-6*abs(0) *)
IsCloseToZero(beta) == RLeq(RAbs(beta), <<1, 100000000>>)

(* lines 181-182: the KL term as it enters the loss *)
ScaledKl(beta, loss_kl) ==
    IF ~IsCloseToZero(beta) THEN RMul(beta, loss_kl) ELSE loss_kl

(* line 187: loss = loss_mse if args.mse_loss else loss_nll + loss_kl *)
LossOf(a, o) ==
    IF a.mse_loss THEN o.mse ELSE RAdd(o.nll, ScaledKl(a.beta, o.kl))

HistoryKeys == {"mse", "nll", "kl", "loss", "KLb_train", "KLb_blocks"}

(* history = {key: [] for key in [...]} *)
EmptyHistory == [key \in HistoryKeys |-> <<>>]

(* variant: the append of line 201 is missing *)
AppendHistoryNoKl(h, a, o) ==
    [h EXCEPT !["KLb_train"]  = Append(@, RSumSeq(o.KLb_blocks)),
              !["KLb_blocks"] = Append(@, o.KLb_blocks),
              !["loss"]       = Append(@, LossOf(a, o)),
              !["mse"]        = Append(@, o.mse),
              !["nll"]        = Append(@, o.nll)]

(* lines 172-173 and 198-201: the six appends of one batch *)
AppendHistory(h, a, o) ==
    [h EXCEPT !["KLb_train"]  = Append(@, RSumSeq(o.KLb_blocks)),
              !["KLb_blocks"] = Append(@, o.KLb_blocks),
              !["loss"]       = Append(@, LossOf(a, o)),
              !["mse"]        = Append(@, o.mse),
              !["nll"]        = Append(@, o.nll),
              !["kl"]         = Append(@, ScaledKl(a.beta, o.kl))]

(* the values a relaxed sample can take over one factor of K categories:  *)
(* multiples of 1/Unit that sum to 1                                       *)
FactorSamples(K) ==
    { d \in [1..K -> 0..Unit] : SumSeq(d) = Unit }

(* torch.cat(edges_split, dim=-1) for one atom-pair: the factors' samples  *)
(* one after another, as sequences of numerators                           *)
RECURSIVE CatRows(_)
CatRows(l) ==
    IF l = <<>> THEN { <<>> }
    ELSE { d \o r : d \in FactorSamples(Head(l)), r \in CatRows(Tail(l)) }

(* a row of a tensor: indices 0..T-1, rational entries *)
RowOf(nums) == [c \in 0..(Len(nums) - 1) |-> Rat(nums[c + 1], Unit)]

PairIdx == 0..(NumPairs - 1)

(* the edge tensors [batch, pairs, edge_types] one batch can produce *)
EdgeBatches(l, bs) ==
    [1..bs -> [PairIdx -> { RowOf(r) : r \in CatRows(l) }]]

(* torch.zeros((args.num_atoms**2)-args.num_atoms, args.edge_types) *)
ZeroPosterior(T) == [i \in PairIdx |-> [c \in 0..(T - 1) |-> Zero]]

RECURSIVE SumOverSamples(_, _, _)
SumOverSamples(edges, i, c) ==
    IF edges = <<>> THEN Zero
    ELSE RAdd(Head(edges)[i][c], SumOverSamples(Tail(edges), i, c))

(* edges.sum(0) *)
EdgesSum0(edges, T) ==
    [i \in PairIdx |-> [c \in 0..(T - 1) |-> SumOverSamples(edges, i, c)]]

TensorAdd(x, y) ==
    [i \in DOMAIN x |-> [c \in DOMAIN x[i] |-> RAdd(x[i][c], y[i][c])]]

(* variant: each batch replaces the accumulator *)
AccumulateOverwrite(aggr, edges, T) == EdgesSum0(edges, T)

(* line 195: aggr_posterior + edges.sum(0) *)
Accumulate(aggr, edges, T) == TensorAdd(aggr, EdgesSum0(edges, T))

(* line 204: aggr_posterior/n_samples *)
Normalise(aggr, n) ==
    [i \in DOMAIN aggr |-> [c \in DOMAIN aggr[i] |-> RDivInt(aggr[i][c], n)]]

(* data_loader of a pass: train() and the 'post' pass read the training set *)
LoaderOf(ld, m) ==
    IF m \in {"train", "post"} THEN ld.train
    ELSE IF m = "val" THEN ld.val ELSE ld.test

(* variant: the mode tests of lines 144 and 189 are missing *)
BatchOpsInEveryMode(m) ==
    <<"zero_grad", "forward", "backward", "clip_grad_norm_", "step">>

(* lines 144-145 and 189-193: what one batch does to the optimiser *)
BatchOps(m) ==
    IF m = "train"
    THEN <<"zero_grad", "forward", "backward", "clip_grad_norm_", "step">>
    ELSE <<"forward">>

----------------------------------------------------------------------------
(* Helpers of generations() *)

(* aggr_posterior[i, et*n:(et+1)*n] with n = args.edge_types_list[et] *)
GenSlice(row, l, et) == PySlice(row, et * l[et + 1], (et + 1) * l[et + 1])

(* np.random.choice(n, 1, p=p) raises ValueError: p has not n entries or   *)
(* its entries do not sum to 1                                             *)
ChoiceRaises(n, p) == Len(p) # n \/ RSumSeq(p) # One

(* the indices np.random.choice(n, 1, p=p) can return *)
ChoiceSupport(n, p) == { idx \in 0..(n - 1) : p[idx + 1][1] > 0 }

FactorIdx(l) == 0..(Len(l) - 1)

GenRaises(post, l) ==
    \E i \in PairIdx, et \in FactorIdx(l) :
        ChoiceRaises(l[et + 1], GenSlice(post[i], l, et))

(* one idx per sample, atom-pair and factor *)
GenDraws(post, l, bz) ==
    { d \in [1..bz -> [PairIdx -> [FactorIdx(l) -> 0..(l[1] - 1)]]] :
        \A b \in 1..bz, i \in PairIdx, et \in FactorIdx(l) :
            d[b][i][et] \in ChoiceSupport(l[et + 1], GenSlice(post[i], l, et)) }

(* lines 251-258: np.zeros, then edges[bz, i, (et*n)+idx] = 1 per factor *)
GenEdges(d, l, T) ==
    [b \in DOMAIN d |-> [i \in PairIdx |-> [c \in 0..(T - 1) |->
        IF \E et \in FactorIdx(l) : c = (et * l[et + 1]) + d[b][i][et]
        THEN 1 ELSE 0]]]

(* row-major flattening of the posterior, each value through str() *)
FlattenStr(post, T) ==
    [k \in 1..(NumPairs * T) |->
        <<"str", post[(k - 1) \div T][(k - 1) % T]>>]

----------------------------------------------------------------------------
(* State *)

VARIABLES
    args,            \* the parsed command line (read-only)
    loaders,         \* train/val/test loaders: their batch sizes
    pc,              \* where main() is
    edge_types_list, \* args.edge_types_list as main() rewrites it
    edge_types,      \* args.edge_types
    built,           \* encoder, decoder, optimizer and scheduler exist
    log_prior,       \* None or one log-prior vector per factor
    restores,        \* the calls of logger.restore so far
    epoch,           \* loop variable of main()
    stop_early,      \* the stall counter
    best_val_loss,   \* what logger.store returned last
    signals,         \* every answer of logger.store so far
    sched_steps,     \* calls of scheduler.step()
    opt_steps,       \* calls of optimizer.step()
    passes,          \* calls of run() that have returned, per mode
    mode,            \* run(): mode of the pass in progress
    batch_idx,       \* run(): batches processed in this pass
    outcomes,        \* run(): what the loss helpers returned, by batch_idx
    history,         \* run(): the metrics history
    edges,           \* run(): the edge tensor of the last 'post' batch
    aggr_posterior,  \* run(): the accumulator of a 'post' pass
    n_samples,       \* run(): the sample count of a 'post' pass
    ops,             \* run(): optimiser-related calls of the last batch
    ret,             \* what the last pass returned
    csv,             \* lines appended to aggr_posterior.csv
    gen_idx,         \* generations(): batches generated
    gen_edges,       \* generations(): the edge tensor of the last batch
    saved,           \* output.npy written
    closed           \* calls of logger.close()

vars == <<args, loaders, pc, edge_types_list, edge_types, built, log_prior,
          restores, epoch, stop_early, best_val_loss, signals, sched_steps,
          opt_steps, passes, mode, batch_idx, outcomes, history, edges,
          aggr_posterior, n_samples, ops, ret, csv, gen_idx, gen_edges,
          saved, closed>>

mainVars == <<edge_types_list, edge_types, built, log_prior, restores, epoch,
              stop_early, best_val_loss, signals>>

runVars == <<mode, batch_idx, outcomes, history, edges, aggr_posterior,
             n_samples, ops>>

genVars == <<csv, gen_idx, gen_edges, saved, closed>>

Init ==
    /\ \E r \in Runs : args = r[1] /\ loaders = r[2]
    /\ pc = "parse"
    /\ edge_types_list = args.edge_types_list
    /\ edge_types = 4
    /\ built = FALSE
    /\ log_prior = None
    /\ restores = <<>>
    /\ epoch = 0
    /\ stop_early = 0
    /\ best_val_loss = Unbound
    /\ signals = <<>>
    /\ sched_steps = 0
    /\ opt_steps = 0
    /\ passes = [m \in {"train", "val", "test", "post"} |-> 0]
    /\ mode = Unbound
    /\ batch_idx = 0
    /\ outcomes = <<>>
    /\ history = Unbound
    /\ edges = Unbound
    /\ aggr_posterior = Unbound
    /\ n_samples = Unbound
    /\ ops = <<>>
    /\ ret = NoReturn
    /\ csv = <<>>
    /\ gen_idx = 0
    /\ gen_edges = Unbound
    /\ saved = FALSE
    /\ closed = 0

----------------------------------------------------------------------------
(* main(): startup *)

(* lines 326-331: parse, sort and validate the partition *)
ParsePartition ==
    /\ pc = "parse"
    /\ edge_types_list' = SortDesc(args.edge_types_list)
    /\ IF AllAtLeastOne(edge_types_list')
       THEN /\ edge_types' = SumSeq(edge_types_list')
            /\ pc' = "build"
       ELSE /\ edge_types' = edge_types
            /\ pc' = "err_partition"
    /\ UNCHANGED <<args, loaders, built, log_prior, restores, epoch, stop_early,
                   best_val_loss, signals, sched_steps, opt_steps, passes, ret>>
    /\ UNCHANGED runVars
    /\ UNCHANGED genVars

(* lines 333-377: encoder, decoder, optimizer, scheduler, optional restore *)
BuildModels ==
    /\ pc = "build"
    /\ built' = TRUE
    /\ restores' = IF args.load_folder
                   THEN Append(restores, [folder |-> TRUE, best |-> FALSE])
                   ELSE restores
    /\ pc' = "prior"
    /\ UNCHANGED <<args, loaders, edge_types_list, edge_types, log_prior, epoch,
                   stop_early, best_val_loss, signals, sched_steps, opt_steps, passes, ret>>
    /\ UNCHANGED runVars
    /\ UNCHANGED genVars

(* lines 379-408: the optional sparsity prior, then stop_early = 0 *)
BuildPrior ==
    /\ pc = "prior"
    /\ IF ~args.prior
       THEN /\ log_prior' = None
            /\ pc' = "loop"
       ELSE IF edge_types_list[1] - 1 = 0
       THEN \* 0.1 / (args.edge_types_list[0]-1): ZeroDivisionError
            /\ log_prior' = None
            /\ pc' = "err_zerodiv"
       ELSE LET prior_et == PriorEt(edge_types_list[1])
                prior    == [i \in 1..Len(edge_types_list) |-> prior_et]
            IN  IF ~PriorFits(prior, edge_types_list)
                THEN /\ log_prior' = None
                     /\ pc' = "err_prior"
                ELSE /\ log_prior' = [i \in 1..Len(prior) |-> LogPriorOf(prior[i])]
                     /\ pc' = "loop"
    /\ stop_early' = 0
    /\ UNCHANGED <<args, loaders, edge_types_list, edge_types, built, restores,
                   epoch, best_val_loss, signals, sched_steps, opt_steps, passes, ret>>
    /\ UNCHANGED runVars
    /\ UNCHANGED genVars

----------------------------------------------------------------------------
(* run(): one pass over a loader *)

(* lines 131-137: a fresh history; in 'post' a zero accumulator *)
BeginPass(m) ==
    /\ mode' = m
    /\ batch_idx' = 0
    /\ outcomes' = <<>>
    /\ history' = EmptyHistory
    /\ edges' = Unbound
    /\ aggr_posterior' = IF m = "post" THEN ZeroPosterior(edge_types) ELSE Unbound
    /\ n_samples' = IF m = "post" THEN 0 ELSE Unbound
    /\ ops' = <<>>

(* the frame of run() is gone once it has returned *)
EndPass ==
    /\ mode' = Unbound
    /\ batch_idx' = 0
    /\ outcomes' = <<>>
    /\ history' = Unbound
    /\ edges' = Unbound
    /\ aggr_posterior' = Unbound
    /\ n_samples' = Unbound
    /\ ops' = <<>>

InPass == pc \in {"train", "val", "test", "post"}

Exhausted == batch_idx = Len(LoaderOf(loaders, mode))

(* lines 139-201: one iteration of the batch loop.  The Gumbel sample is   *)
(* drawn where the pass reads it back (line 195); in the other modes it    *)
(* only feeds the decoder, whose output is drawn freely.                   *)
RunBatch ==
    /\ InPass
    /\ ~Exhausted
    /\ LET bs == LoaderOf(loaders, mode)[batch_idx + 1]
       IN  \E o \in BatchOutcomes :
             /\ outcomes' = [k \in 0..batch_idx |->
                                 IF k = batch_idx THEN o ELSE outcomes[k]]
             /\ history' = AppendHistory(history, args, o)
             /\ IF mode = "post"
                THEN \E e \in EdgeBatches(edge_types_list, bs) :
                       /\ edges' = e
                       /\ aggr_posterior' = Accumulate(aggr_posterior, e, edge_types)
                       /\ n_samples' = n_samples + bs
                ELSE UNCHANGED <<edges, aggr_posterior, n_samples>>
    /\ ops' = BatchOps(mode)
    /\ opt_steps' = opt_steps + Cardinality({ k \in 1..Len(ops') : ops'[k] = "step" })
    /\ batch_idx' = batch_idx + 1
    /\ UNCHANGED <<args, loaders, pc, sched_steps, passes, ret, mode>>
    /\ UNCHANGED mainVars
    /\ UNCHANGED genVars

----------------------------------------------------------------------------
(* main(): the epoch loop *)

(* variant: train() without scheduler.step() *)
SchedulerNotStepped(n) == n

(* line 216: scheduler.step() *)
SchedulerStep(n) == n + 1

(* line 423: stop_early = 0 if best_val_loss else stop_early+1 *)
StallUpdate(best, se) == IF best THEN 0 ELSE se + 1

(* variant: stop as soon as the counter reaches the patience *)
StopsAtPatience(se, patience) == se >= patience

(* line 425: stop_early > args.patience *)
StopsEarly(se, patience) == se > patience

(* lines 409-410, 211-214: next epoch, train() starts its pass *)
TrainCall ==
    /\ pc = "loop"
    /\ epoch < args.epochs
    /\ epoch' = epoch + 1
    /\ pc' = "train"
    /\ BeginPass("train")
    /\ ret' = NoReturn
    /\ UNCHANGED <<args, loaders, edge_types_list, edge_types, built, log_prior,
                   restores, stop_early, best_val_loss, signals, sched_steps,
                   opt_steps, passes>>
    /\ UNCHANGED genVars

(* line 409: range(1, args.epochs+1) is exhausted *)
LoopExhausted ==
    /\ pc = "loop"
    /\ ~(epoch < args.epochs)
    /\ pc' = "finished"
    /\ UNCHANGED <<args, loaders, sched_steps, opt_steps, passes, ret>>
    /\ UNCHANGED mainVars
    /\ UNCHANGED runVars
    /\ UNCHANGED genVars

(* lines 206, 216-219: the pass returns, the schedule advances *)
TrainReturn ==
    /\ pc = "train"
    /\ Exhausted
    /\ ret' = [history |-> history, aggr_posterior |-> None]
    /\ sched_steps' = SchedulerStep(sched_steps)
    /\ pc' = "val_call"
    /\ passes' = [passes EXCEPT !["train"] = @ + 1]
    /\ UNCHANGED <<args, loaders, opt_steps>>
    /\ UNCHANGED mainVars
    /\ EndPass
    /\ UNCHANGED genVars

(* lines 413, 224-230 *)
ValCall ==
    /\ pc = "val_call"
    /\ pc' = "val"
    /\ BeginPass("val")
    /\ ret' = NoReturn
    /\ UNCHANGED <<args, loaders, sched_steps, opt_steps, passes>>
    /\ UNCHANGED mainVars
    /\ UNCHANGED genVars

(* lines 206, 235-236 *)
ValReturn ==
    /\ pc = "val"
    /\ Exhausted
    /\ ret' = [history |-> history, aggr_posterior |-> None]
    /\ pc' = "test_call"
    /\ passes' = [passes EXCEPT !["val"] = @ + 1]
    /\ UNCHANGED <<args, loaders, sched_steps, opt_steps>>
    /\ UNCHANGED mainVars
    /\ EndPass
    /\ UNCHANGED genVars

(* lines 416, 224-230 *)
TestCall ==
    /\ pc = "test_call"
    /\ pc' = "test"
    /\ BeginPass("test")
    /\ ret' = NoReturn
    /\ UNCHANGED <<args, loaders, sched_steps, opt_steps, passes>>
    /\ UNCHANGED mainVars
    /\ UNCHANGED genVars

(* lines 206, 235-236 *)
TestReturn ==
    /\ pc = "test"
    /\ Exhausted
    /\ ret' = [history |-> history, aggr_posterior |-> None]
    /\ pc' = "store"
    /\ passes' = [passes EXCEPT !["test"] = @ + 1]
    /\ UNCHANGED <<args, loaders, sched_steps, opt_steps>>
    /\ UNCHANGED mainVars
    /\ EndPass
    /\ UNCHANGED genVars

(* lines 420-429: store, stall counter, early-stop check *)
Store ==
    /\ pc = "store"
    /\ \E is_best \in BOOLEAN :
         /\ best_val_loss' = is_best
         /\ signals' = Append(signals, is_best)
         /\ stop_early' = StallUpdate(is_best, stop_early)
    /\ pc' = IF StopsEarly(stop_early', args.patience) THEN "finished" ELSE "loop"
    /\ UNCHANGED <<args, loaders, edge_types_list, edge_types, built, log_prior,
                   restores, epoch, sched_steps, opt_steps, passes, ret>>
    /\ UNCHANGED runVars
    /\ UNCHANGED genVars

----------------------------------------------------------------------------
(* main(): after the loop *)

(* lines 431-439: restore the best model *)
RestoreBest ==
    /\ pc = "finished"
    /\ restores' = Append(restores, [folder |-> args.load_folder, best |-> TRUE])
    /\ pc' = "post_call"
    /\ UNCHANGED <<args, loaders, edge_types_list, edge_types, built, log_prior,
                   epoch, stop_early, best_val_loss, signals, sched_steps,
                   opt_steps, passes, ret>>
    /\ UNCHANGED runVars
    /\ UNCHANGED genVars

(* lines 442, 224-230 *)
PostCall ==
    /\ pc = "post_call"
    /\ pc' = "post"
    /\ BeginPass("post")
    /\ ret' = NoReturn
    /\ UNCHANGED <<args, loaders, sched_steps, opt_steps, passes>>
    /\ UNCHANGED mainVars
    /\ UNCHANGED genVars

(* lines 203-204, 232-233 *)
PostReturn ==
    /\ pc = "post"
    /\ Exhausted
    /\ ret' = [history |-> None,
               aggr_posterior |-> Normalise(aggr_posterior, n_samples)]
    /\ pc' = "csv"
    /\ passes' = [passes EXCEPT !["post"] = @ + 1]
    /\ UNCHANGED <<args, loaders, sched_steps, opt_steps>>
    /\ UNCHANGED mainVars
    /\ EndPass
    /\ UNCHANGED genVars

(* lines 446-451: one line appended to aggr_posterior.csv *)
WriteCsv ==
    /\ pc = "csv"
    /\ csv' = Append(csv, FlattenStr(ret.aggr_posterior, edge_types))
    /\ pc' = "gen"
    /\ UNCHANGED <<args, loaders, sched_steps, opt_steps, passes, ret, gen_idx,
                   gen_edges, saved, closed>>
    /\ UNCHANGED mainVars
    /\ UNCHANGED runVars

(* lines 247-268: one batch of generations() *)
GenBatch ==
    /\ pc = "gen"
    /\ gen_idx < Len(loaders.test)
    /\ IF GenRaises(ret.aggr_posterior, edge_types_list)
       THEN \* np.random.choice raises ValueError
            /\ pc' = "err_choice"
            /\ UNCHANGED <<gen_idx, gen_edges>>
       ELSE /\ \E d \in GenDraws(ret.aggr_posterior, edge_types_list,
                                 loaders.test[gen_idx + 1]) :
                  gen_edges' = GenEdges(d, edge_types_list, edge_types)
            /\ gen_idx' = gen_idx + 1
            /\ pc' = pc
    /\ UNCHANGED <<args, loaders, sched_steps, opt_steps, passes, ret, csv, saved, closed>>
    /\ UNCHANGED mainVars
    /\ UNCHANGED runVars

(* lines 270-273: the loader is exhausted, output.npy is written *)
GenSave ==
    /\ pc = "gen"
    /\ gen_idx = Len(loaders.test)
    /\ saved' = TRUE
    /\ pc' = "close"
    /\ UNCHANGED <<args, loaders, sched_steps, opt_steps, passes, ret, csv, gen_idx,
                   gen_edges, closed>>
    /\ UNCHANGED mainVars
    /\ UNCHANGED runVars

(* line 458: logger.close() *)
Close ==
    /\ pc = "close"
    /\ closed' = closed + 1
    /\ pc' = "done"
    /\ UNCHANGED <<args, loaders, sched_steps, opt_steps, passes, ret, csv, gen_idx,
                   gen_edges, saved>>
    /\ UNCHANGED mainVars
    /\ UNCHANGED runVars

----------------------------------------------------------------------------

Next ==
    \/ ParsePartition
    \/ BuildModels
    \/ BuildPrior
    \/ TrainCall
    \/ RunBatch
    \/ TrainReturn
    \/ ValCall
    \/ ValReturn
    \/ TestCall
    \/ TestReturn
    \/ Store
    \/ LoopExhausted
    \/ RestoreBest
    \/ PostCall
    \/ PostReturn
    \/ WriteCsv
    \/ GenBatch
    \/ GenSave
    \/ Close

Spec == Init /\ [][Next]_vars

----------------------------------------------------------------------------
(* Properties *)

Started == pc \notin {"parse", "build", "prior", "err_partition",
                      "err_zerodiv", "err_prior"}

InEpoch == pc \in {"train", "val_call", "val", "test_call", "test", "store"}

LoopLeft == pc \in {"finished", "post_call", "post", "csv", "gen", "close",
                    "done", "err_choice"}

(* the number of non-best answers at the end of a sequence of answers *)
RECURSIVE TrailingNonBest(_)
TrailingNonBest(sig) ==
    IF sig = <<>> \/ sig[Len(sig)] THEN 0
    ELSE 1 + TrailingNonBest(SubSeq(sig, 1, Len(sig) - 1))

(* the epochs at whose end more than P answers in a row were non-best *)
ExceedEpochs(sig, P) ==
    { k \in 1..Len(sig) : TrailingNonBest(SubSeq(sig, 1, k)) > P }

(* C1: the stall counter is the number of non-best answers of the store    *)
(* since its last 'best' answer (reset on best, plus one otherwise); the   *)
(* loop is still running only while no epoch has ended with more than      *)
(* patience non-best answers in a row; it is left at the first such epoch  *)
(* and at no other, and when there is none it is left after exactly        *)
(* args.epochs epochs.                                                     *)
C1_EarlyStop ==
    /\ Started => /\ stop_early = TrailingNonBest(signals)
                  /\ epoch <= args.epochs
    /\ (pc = "loop" \/ InEpoch) =>
          /\ ExceedEpochs(signals, args.patience) = {}
          /\ Len(signals) = IF pc = "loop" THEN epoch ELSE epoch - 1
    /\ LoopLeft =>
          /\ Len(signals) = epoch
          /\ IF ExceedEpochs(signals, args.patience) # {}
             THEN /\ ExceedEpochs(signals, args.patience) = {epoch}
                  /\ stop_early = args.patience + 1
                  /\ \A k \in (epoch - args.patience)..epoch : ~signals[k]
             ELSE epoch = args.epochs

(* patience 2, an initial best and three non-improving epochs: the loop is *)
(* left at epoch 4 although more epochs were configured                    *)
C1_Witness ==
    /\ pc = "finished"
    /\ args.patience = 2
    /\ args.epochs > 4
    /\ signals = <<TRUE, FALSE, FALSE, FALSE>>
    /\ epoch = 4

----------------------------------------------------------------------------

(* C2: in the ELBO branch (mse_loss off) with beta exactly 0, the loss of  *)
(* every batch is the Gaussian NLL term alone: the KL term adds nothing,   *)
(* whatever its size.                                                      *)
C2_BetaZeroLossIsNll ==
    (InPass /\ ~args.mse_loss /\ args.beta = Zero) =>
        \A k \in 1..batch_idx : history["loss"][k] = outcomes[k - 1].nll

----------------------------------------------------------------------------

(* the slice of factor f (0-based) in the partition l: it starts at the    *)
(* sum of the preceding factor sizes and has the factor's size             *)
FactorStart(l, f) == SumSeq(SubSeq(l, 1, f))

FactorSlice(l, f) == FactorStart(l, f)..(FactorStart(l, f) + l[f + 1] - 1)

RECURSIVE RSumOver(_, _)
RSumOver(row, S) ==
    IF S = {} THEN Zero
    ELSE LET c == CHOOSE x \in S : TRUE
         IN  RAdd(row[c], RSumOver(row, S \ {c}))

SamplesSeen == SumSeq(SubSeq(LoaderOf(loaders, "post"), 1, batch_idx))

PostStarts ==
    (pc = "post" /\ batch_idx = 0) =>
        /\ n_samples = 0
        /\ DOMAIN aggr_posterior = 0..(num_atoms * (num_atoms - 1) - 1)
        /\ \A i \in DOMAIN aggr_posterior :
             /\ DOMAIN aggr_posterior[i] = 0..(edge_types - 1)
             /\ \A c \in DOMAIN aggr_posterior[i] : aggr_posterior[i][c] = Zero

PostCounts == pc = "post" => n_samples = SamplesSeen

PostBatchAdds ==
    (pc = "post" /\ batch_idx' = batch_idx + 1) =>
        /\ Len(edges') = LoaderOf(loaders, "post")[batch_idx']
        /\ n_samples' = n_samples + Len(edges')
        /\ \A i \in DOMAIN aggr_posterior, c \in 0..(edge_types - 1) :
             aggr_posterior'[i][c] =
                 RAdd(aggr_posterior[i][c], SumOverSamples(edges', i, c))

PostReturnsMean ==
    (pc = "post" /\ pc' # "post") =>
        /\ n_samples = SumSeq(loaders.train)
        /\ ret'.history = None
        /\ \A i \in DOMAIN aggr_posterior, c \in 0..(edge_types - 1) :
             RMul(ret'.aggr_posterior[i][c], <<n_samples, 1>>) = aggr_posterior[i][c]

PosteriorNormalised ==
    pc \in {"csv", "gen", "close", "done", "err_choice"} =>
        \A i \in PairIdx, f \in FactorIdx(edge_types_list) :
            RSumOver(ret.aggr_posterior[i], FactorSlice(edge_types_list, f)) = One

(* C3: a 'post' pass starts from the all-zero [N*(N-1) x edge_types]       *)
(* accumulator and count 0; each batch adds the element-wise sum of its    *)
(* samples' edge tensors and its number of samples, so that the count is   *)
(* the number of samples seen so far; the pass returns the accumulator     *)
(* divided by the total sample count; and every factor slice of the        *)
(* returned posterior sums to 1 for every atom-pair.                       *)
C3_Posterior ==
    /\ [](PostStarts /\ PostCounts /\ PosteriorNormalised)
    /\ [][PostBatchAdds /\ PostReturnsMean]_vars

(* a posterior returned from two batches of different sizes that is not   *)
(* one-hot                                                                 *)
C3_Witness ==
    /\ pc = "csv"
    /\ loaders.train = <<2, 1>>
    /\ \E i \in PairIdx : ret.aggr_posterior[i][0] = <<1, 3>>

----------------------------------------------------------------------------

PassLoader ==
    CASE pc = "val_call"  -> loaders.train
      [] pc = "test_call" -> loaders.val
      [] pc = "store"     -> loaders.test
      [] OTHER            -> <<>>

(* C5: during a pass every one of the six keys holds one entry per batch   *)
(* processed, entry i being what was computed for batch i of the loader;   *)
(* the history is empty when the pass starts, and a history that a pass    *)
(* returns holds one entry per batch of its loader under every key.        *)
C5_History ==
    /\ InPass =>
          /\ DOMAIN history = {"loss", "mse", "nll", "kl", "KLb_train", "KLb_blocks"}
          /\ \A key \in DOMAIN history : Len(history[key]) = batch_idx
          /\ \A i \in 1..batch_idx :
                LET o == outcomes[i - 1]
                IN  /\ history["nll"][i] = o.nll
                    /\ history["mse"][i] = o.mse
                    /\ history["KLb_blocks"][i] = o.KLb_blocks
                    /\ history["KLb_train"][i] = RSumSeq(o.KLb_blocks)
                    /\ history["kl"][i] =
                          IF IsCloseToZero(args.beta) THEN o.kl
                          ELSE RMul(args.beta, o.kl)
                    /\ history["loss"][i] =
                          IF args.mse_loss THEN o.mse
                          ELSE RAdd(o.nll, history["kl"][i])
    /\ pc \in {"val_call", "test_call", "store"} =>
          \A key \in DOMAIN ret.history :
              Len(ret.history[key]) = Len(PassLoader)

(* a training pass over two batches returns a history with                 *)
(* two different losses                                                    *)
C5_Witness ==
    /\ pc = "val_call"
    /\ Len(loaders.train) = 2
    /\ Len(ret.history["loss"]) = 2
    /\ ret.history["loss"][1] # ret.history["loss"][2]

----------------------------------------------------------------------------

Generated == pc \in {"gen", "close", "done"} /\ gen_idx > 0

(* factor f is certain: probability 1 on its category 0 for every pair *)
CertainOnFirst(post, l, f) ==
    \A i \in PairIdx : post[i][FactorStart(l, f)] = One

(* C4: when the posterior puts probability 1 on category 0 of a factor for *)
(* all atom-pairs, every generated sample has, for every atom-pair, a 1 at *)
(* category 0 of that factor's slice and 0 elsewhere in the slice.         *)
C4_CertainFactor ==
    Generated =>
        \A f \in FactorIdx(edge_types_list) :
            CertainOnFirst(ret.aggr_posterior, edge_types_list, f) =>
                \A b \in DOMAIN gen_edges, i \in PairIdx :
                    \A c \in FactorSlice(edge_types_list, f) :
                        gen_edges[b][i][c] =
                            IF c = FactorStart(edge_types_list, f) THEN 1 ELSE 0

(* C9: every generated sample has, for every atom-pair and every factor,   *)
(* exactly one 1 and otherwise 0 inside the factor's slice, at a category  *)
(* to which the posterior gives non-zero probability for that pair.        *)
C9_OneHotPerFactor ==
    Generated =>
        \A b \in DOMAIN gen_edges, i \in PairIdx, f \in FactorIdx(edge_types_list) :
            \E c \in FactorSlice(edge_types_list, f) :
                /\ gen_edges[b][i][c] = 1
                /\ ret.aggr_posterior[i][c][1] > 0
                /\ \A c2 \in FactorSlice(edge_types_list, f) \ {c} :
                       gen_edges[b][i][c2] = 0

----------------------------------------------------------------------------

BestRestores == Cardinality({ k \in 1..Len(restores) : restores[k].best })

Stopped == pc \in {"done", "err_choice"}

(* C6: once the loop has ended, the best checkpoint is restored, one       *)
(* 'post' pass runs over the training loader, one line of pairs x          *)
(* edge_types values is appended to the posterior log, the generator runs  *)
(* over the test loader and the logger is closed: each exactly once, in    *)
(* this order, in every run; no train, val or test pass follows the        *)
(* restore.                                                                *)
C6_AfterLoop ==
    /\ ~LoopLeft => BestRestores = 0 /\ passes["post"] = 0
    /\ pc = "finished" => BestRestores = 0
    /\ pc \in {"finished", "post_call", "post"} =>
          passes["post"] = 0 /\ csv = <<>>
    /\ pc \in {"finished", "post_call", "post", "csv"} =>
          gen_idx = 0 /\ ~saved
    /\ pc # "done" => closed = 0
    /\ (LoopLeft /\ pc # "finished") =>
          /\ BestRestores = 1
          /\ restores[Len(restores)].best
          /\ passes["train"] = epoch /\ passes["val"] = epoch /\ passes["test"] = epoch
    /\ pc \in {"csv", "gen", "close", "done", "err_choice"} => passes["post"] = 1
    /\ pc \in {"gen", "close", "done", "err_choice"} =>
          /\ Len(csv) = 1
          /\ Len(csv[1]) = NumPairs * edge_types
    /\ pc \in {"close", "done"} => saved /\ gen_idx = Len(loaders.test)
    /\ Stopped => saved /\ closed = 1

----------------------------------------------------------------------------

IsDescending(l) == \A k \in 1..(Len(l) - 1) : l[k] >= l[k + 1]

Occurrences(l, v) == Cardinality({ k \in 1..Len(l) : l[k] = v })

SameEntries(l1, l2) ==
    /\ Len(l1) = Len(l2)
    /\ \A k \in 1..Len(l1) : Occurrences(l1, l1[k]) = Occurrences(l2, l1[k])

NoPassYet ==
    /\ mode = Unbound
    /\ \A m \in DOMAIN passes : passes[m] = 0

(* C7: a configured partition with an entry below 1 ends startup in the    *)
(* configuration error, with no encoder, decoder or optimizer built and no *)
(* pass run; otherwise, from the validation on, the partition is the       *)
(* configured entries in descending order, every size is at least 1 and    *)
(* edge_types is the sum of the sizes.                                     *)
C7_Partition ==
    pc # "parse" =>
        IF \E k \in 1..Len(args.edge_types_list) : args.edge_types_list[k] < 1
        THEN pc = "err_partition" /\ ~built /\ NoPassYet
        ELSE /\ pc # "err_partition"
             /\ SameEntries(edge_types_list, args.edge_types_list)
             /\ IsDescending(edge_types_list)
             /\ \A k \in 1..Len(edge_types_list) : edge_types_list[k] >= 1
             /\ edge_types = SumSeq(edge_types_list)

(* a run that has come to its end with a partition given in ascending order *)
C7_Witness ==
    /\ pc = "done"
    /\ args.edge_types_list = <<1, 2>>
    /\ edge_types_list = <<2, 1>>
    /\ edge_types = 3

----------------------------------------------------------------------------

LogPriorFits(f) ==
    /\ Len(log_prior[f]) = edge_types_list[f]
    /\ log_prior[f][1] = <<"log", <<9, 10>>>>
    /\ \A c \in 2..Len(log_prior[f]) :
          log_prior[f][c] = <<"log", Rat(1, 10 * (edge_types_list[f] - 1))>>

(* C8: with the sparsity prior requested and a valid partition, startup    *)
(* either gives every factor a log-prior of the factor's size (0.9 on the  *)
(* first category, 0.1 split evenly over the others) or fails with the     *)
(* prior-incompatibility error before any epoch runs; it fails so whenever *)
(* two factor sizes differ, and no pass runs with a log-prior of another   *)
(* length than its factor's size.                                          *)
C8_Prior ==
    /\ (args.prior /\ pc \notin {"parse", "build", "prior", "err_partition"}) =>
          \/ pc = "err_prior" /\ NoPassYet
          \/ /\ log_prior # None
             /\ Len(log_prior) = Len(edge_types_list)
             /\ \A f \in 1..Len(edge_types_list) : LogPriorFits(f)
    /\ (args.prior /\ Started) =>
          \A f, g \in 1..Len(edge_types_list) : edge_types_list[f] = edge_types_list[g]
    /\ (InPass /\ log_prior # None) =>
          \A f \in 1..Len(edge_types_list) : Len(log_prior[f]) = edge_types_list[f]

----------------------------------------------------------------------------

(* C10: within epoch e the training pass, the scheduler step, the          *)
(* validation pass, the test pass and the store happen once each, in this  *)
(* order, before the early-stop check; after e epochs the scheduler has    *)
(* been stepped e times and the store called e times.                      *)
C10_EpochOrder ==
    /\ pc \in {"parse", "build", "prior"} => epoch = 0
    /\ pc = "train" =>
          /\ mode = "train"
          /\ passes["train"] = epoch - 1 /\ sched_steps = epoch - 1
          /\ passes["val"] = epoch - 1 /\ passes["test"] = epoch - 1
          /\ Len(signals) = epoch - 1
    /\ pc \in {"val_call", "val"} =>
          /\ pc = "val" => mode = "val"
          /\ passes["train"] = epoch /\ sched_steps = epoch
          /\ passes["val"] = epoch - 1 /\ passes["test"] = epoch - 1
          /\ Len(signals) = epoch - 1
    /\ pc \in {"test_call", "test"} =>
          /\ pc = "test" => mode = "test"
          /\ passes["train"] = epoch /\ sched_steps = epoch
          /\ passes["val"] = epoch /\ passes["test"] = epoch - 1
          /\ Len(signals) = epoch - 1
    /\ pc = "store" =>
          /\ passes["train"] = epoch /\ sched_steps = epoch
          /\ passes["val"] = epoch /\ passes["test"] = epoch
          /\ Len(signals) = epoch - 1
    /\ (pc = "loop" \/ LoopLeft) =>
          /\ passes["train"] = epoch /\ sched_steps = epoch
          /\ passes["val"] = epoch /\ passes["test"] = epoch
          /\ Len(signals) = epoch

(* the early stop of a third epoch: three of each step have happened *)
C10_Witness ==
    /\ pc = "finished"
    /\ epoch = 3
    /\ args.epochs > 3
    /\ sched_steps = 3
    /\ Len(signals) = 3
    /\ passes["test"] = 3

----------------------------------------------------------------------------

OptimiserCalls == {"zero_grad", "backward", "clip_grad_norm_", "step"}

(* the batches of training passes processed so far *)
TrainBatchesDone ==
    (passes["train"] * Len(loaders.train))
        + (IF pc = "train" THEN batch_idx ELSE 0)

============================================================================
